---------------------------- MODULE Spec2Model ----------------------------
(***************************************************************************)
(* A model of DataProcessor (src/data_processor.py): the raw record table, *)
(* the processed records, the customer index, and the operations           *)
(* load_data, process_data, add_customer, update_customer,                  *)
(* delete_customer, search_customer and find_lost_customers.                *)
(*                                                                         *)
(* Text is a sequence of characters; a character is a one-token string.    *)
(* Latin letters are themselves ("a", "A"); Persian letters are named by   *)
(* their transliteration ("sheen", "kaf"); the Arabic code points that     *)
(* _normalize_text unifies are "yeh_ar" and "kaf_ar"; "ZWNJ" is U+200C.     *)
(* A float score is the exact rational <<numerator, denominator>>.          *)
(***************************************************************************)
EXTENDS Integers, Sequences, FiniteSets, TLC

VARIABLES df, processed_data, customer_index, processed_ok, ret

vars == <<df, processed_data, customer_index, processed_ok, ret>>

-----------------------------------------------------------------------------
(* Bounds of the model *)

\* the most rows the raw table holds while records are added, edited and deleted
MaxRows == 2

\* the most rows the raw table holds while it is searched
MaxSearchRows == 3

\* the most rows the raw table holds while lost customers are looked for
MaxLostRows == 3

-----------------------------------------------------------------------------
(* Python values *)

\* Python's None; Some(v) is a value that is not None
None == <<>>
Some(v) == <<v>>
IsNone(x) == x = <<>>
Get(x) == x[1]

\* pandas' NaN in a numeric column (pd.to_numeric(errors='coerce') of a cell
\* that is no number); never >= or <= anything, and dropped by dropna()
NaN == -1

\* a missing cell of a text column; astype(str) turns it into the text 'nan'
NaNCell == <<"NaN">>
NanText == <<"n", "a", "n">>

AsTypeStr(cell) == IF cell = NaNCell THEN NanText ELSE cell

-----------------------------------------------------------------------------
(* Text *)

\* the characters str.strip()/str.split()/re '\s' treat as whitespace
Whitespace == {" ", "TAB", "LF", "CR", "NBSP"}

Max(a, b) == IF a >= b THEN a ELSE b

RECURSIVE LStrip(_)
LStrip(s) ==
    IF s = <<>> THEN <<>>
    ELSE IF Head(s) \in Whitespace THEN LStrip(Tail(s)) ELSE s

RECURSIVE RStrip(_)
RStrip(s) ==
    IF s = <<>> THEN <<>>
    ELSE IF s[Len(s)] \in Whitespace THEN RStrip(SubSeq(s, 1, Len(s) - 1)) ELSE s

\* str.strip()
Strip(s) == RStrip(LStrip(s))

\* str.lower() on the characters of the model
LowerChar(c) ==
    CASE c = "A" -> "a"
      [] c = "B" -> "b"
      [] c = "C" -> "c"
      [] c = "D" -> "d"
      [] c = "N" -> "n"
      [] c = "F" -> "f"
      [] c = "I" -> "i"
      [] OTHER -> c

Lower(s) == [i \in 1..Len(s) |-> LowerChar(s[i])]

\* text.replace(old, new) for single characters
ReplaceChar(s, old, new) == [i \in 1..Len(s) |-> IF s[i] = old THEN new ELSE s[i]]

\* re.sub(r'\s+', ' ', text)
RECURSIVE CollapseWhitespace(_)
CollapseWhitespace(s) ==
    IF s = <<>> THEN <<>>
    ELSE IF Head(s) \in Whitespace
         THEN <<" ">> \o CollapseWhitespace(LStrip(s))
         ELSE <<Head(s)>> \o CollapseWhitespace(Tail(s))

\* the first word of a text that starts with no whitespace
RECURSIVE FirstWord(_)
FirstWord(s) ==
    IF s = <<>> \/ Head(s) \in Whitespace THEN <<>>
    ELSE <<Head(s)>> \o FirstWord(Tail(s))

\* str.split(): the maximal runs of non-whitespace characters
RECURSIVE Split(_)
Split(s) ==
    LET t == LStrip(s)
        w == FirstWord(t)
    IN  IF t = <<>> THEN <<>>
        ELSE <<w>> \o Split(SubSeq(t, Len(w) + 1, Len(t)))

\* a in b, for texts
Contains(b, a) ==
    \E i \in 1..(Len(b) - Len(a) + 1) : SubSeq(b, i, i + Len(a) - 1) = a

\* DataProcessor._normalize_text
_normalize_text(text) ==
    IF text = NanText THEN <<>>
    ELSE Lower(Strip(CollapseWhitespace(
             ReplaceChar(ReplaceChar(ReplaceChar(text, "yeh_ar", "yeh"),
                                     "kaf_ar", "kaf"), "ZWNJ", " "))))

-----------------------------------------------------------------------------
(* Floats, as exact rationals <<numerator, denominator>>, denominator > 0 *)

Rat(n, d) == <<n, d>>
RatGe(r, s) == r[1] * s[2] >= s[1] * r[2]
RatGt(r, s) == r[1] * s[2] > s[1] * r[2]
RatAdd(r, s) == <<r[1] * s[2] + s[1] * r[2], r[2] * s[2]>>
RatMax(r, s) == IF RatGe(r, s) THEN r ELSE s

\* round(x, 2), in hundredths (an exact tie goes to the even neighbour)
Round2(r) ==
    LET n == r[1] * 100
        q == n \div r[2]
        m == n % r[2]
    IN  IF 2 * m > r[2] THEN q + 1
        ELSE IF 2 * m = r[2] THEN q + (q % 2)
        ELSE q

-----------------------------------------------------------------------------
(* rapidfuzz, as data_processor.py calls it *)

\* one row of the longest-common-subsequence table: cur[j] for the character
\* ch of the first text against b[1..j], from the row prev of the text before ch
RECURSIVE LcsRowFill(_, _, _, _)
LcsRowFill(prev, ch, b, cur) ==
    IF Len(cur) = Len(b) THEN cur
    ELSE LET j == Len(cur) + 1
             diag == IF j = 1 THEN 0 ELSE prev[j - 1]
             left == IF j = 1 THEN 0 ELSE cur[j - 1]
             v == IF ch = b[j] THEN diag + 1 ELSE Max(prev[j], left)
         IN  LcsRowFill(prev, ch, b, Append(cur, v))

RECURSIVE LcsRows(_, _, _, _)
LcsRows(a, b, i, prev) ==
    IF i > Len(a) THEN prev
    ELSE LcsRows(a, b, i + 1, LcsRowFill(prev, a[i], b, <<>>))

\* the length of the longest common subsequence of two texts
LcsLen(a, b) ==
    IF a = <<>> \/ b = <<>> THEN 0
    ELSE LcsRows(a, b, 1, [j \in 1..Len(b) |-> 0])[Len(b)]

\* the Indel distance: insertions and deletions turning a into b
IndelDistance(a, b) == Len(a) + Len(b) - 2 * LcsLen(a, b)

\* _norm_distance of rapidfuzz: 100 - 100 * dist / lensum
NormDistance(dist, lensum) ==
    IF lensum = 0 THEN Rat(100, 1) ELSE Rat(100 * (lensum - dist), lensum)

\* fuzz.ratio(a, b): the normalized Indel similarity, 0..100
fuzz_ratio(a, b) == NormDistance(IndelDistance(a, b), Len(a) + Len(b))

\* the code points of the model's characters, in increasing order
CharOrder ==
    <<"TAB", " ", "A", "B", "C", "D", "F", "I", "N",
      "a", "b", "c", "d", "e", "f", "g", "h", "i", "j", "k", "l", "m",
      "n", "o", "p", "q", "r", "s", "t", "u", "v", "w", "x", "y", "z",
      "alef", "beh", "teh", "jeem", "hah", "kheh", "dal", "reh", "zeh",
      "seen", "sheen", "sad", "ain", "feh", "kaf_ar", "lam", "meem", "noon",
      "heh", "vav", "yeh_ar", "peh", "zheh", "kaf", "gaf", "yeh", "ZWNJ">>

CharRank(c) == CHOOSE i \in 1..Len(CharOrder) : CharOrder[i] = c

\* a < b for texts, as Python orders str
RECURSIVE TextLess(_, _)
TextLess(a, b) ==
    IF b = <<>> THEN FALSE
    ELSE IF a = <<>> THEN TRUE
    ELSE IF Head(a) = Head(b) THEN TextLess(Tail(a), Tail(b))
    ELSE CharRank(Head(a)) < CharRank(Head(b))

\* sorted(tokens), for a set of texts
RECURSIVE SortedTokens(_)
SortedTokens(S) ==
    IF S = {} THEN <<>>
    ELSE LET least == CHOOSE t \in S : \A u \in S \ {t} : TextLess(t, u)
         IN  <<least>> \o SortedTokens(S \ {least})

\* ' '.join(words)
RECURSIVE JoinWords(_)
JoinWords(ws) ==
    IF ws = <<>> THEN <<>>
    ELSE IF Len(ws) = 1 THEN ws[1]
    ELSE ws[1] \o <<" ">> \o JoinWords(Tail(ws))

SeqToSet(s) == {s[i] : i \in 1..Len(s)}

\* fuzz.token_set_ratio(s1, s2), 0..100
fuzz_token_set_ratio(s1, s2) ==
    LET tokens_a == SeqToSet(Split(s1))
        tokens_b == SeqToSet(Split(s2))
        intersect == tokens_a \cap tokens_b
        diff_ab == tokens_a \ tokens_b
        diff_ba == tokens_b \ tokens_a
        diff_ab_joined == JoinWords(SortedTokens(diff_ab))
        diff_ba_joined == JoinWords(SortedTokens(diff_ba))
        ab_len == Len(diff_ab_joined)
        ba_len == Len(diff_ba_joined)
        sect_len == Len(JoinWords(SortedTokens(intersect)))
        sep == IF sect_len # 0 THEN 1 ELSE 0
        sect_ab_len == sect_len + sep + ab_len
        sect_ba_len == sect_len + sep + ba_len
        result == NormDistance(IndelDistance(diff_ab_joined, diff_ba_joined),
                               sect_ab_len + sect_ba_len)
        sect_ab_ratio == NormDistance(sep + ab_len, sect_len + sect_ab_len)
        sect_ba_ratio == NormDistance(sep + ba_len, sect_len + sect_ba_len)
    IN  IF s1 = <<>> \/ s2 = <<>> THEN Rat(0, 1)
        ELSE IF tokens_a = {} \/ tokens_b = {} THEN Rat(0, 1)
        ELSE IF intersect # {} /\ (diff_ab = {} \/ diff_ba = {}) THEN Rat(100, 1)
        ELSE IF sect_len = 0 THEN result
        ELSE RatMax(result, RatMax(sect_ab_ratio, sect_ba_ratio))

-----------------------------------------------------------------------------
(* _normalize_state *)

\* text.replace(c, "")
RemoveChar(s, c) == SelectSeq(s, LAMBDA x : x # c)

\* the three labels: 'رسمی', 'غیررسمی', 'نامشخص'
FormalLabel == <<"reh", "seen", "meem", "yeh">>
InformalLabel == <<"ghain", "yeh", "reh", "reh", "seen", "meem", "yeh">>
UnknownLabel == <<"noon", "alef", "meem", "sheen", "khah", "sad">>

\* line 159
formal_keywords ==
    << <<"reh", "seen", "meem", "yeh">>,
       <<"reh", "seen", "meem", "yeh_ar">>,
       <<"f", "o", "r", "m", "a", "l">>,
       <<"o", "f", "f", "i", "c", "i", "a", "l">>,
       <<"feh", "alef", "kaf", "teh", "waw", "reh">>,
       <<"i", "n", "v", "o", "i", "c", "e">> >>

\* line 160
informal_keywords ==
    << <<"ghain", "yeh", "reh", "reh", "seen", "meem", "yeh">>,
       <<"ghain", "yeh", "reh", "reh", "seen", "meem", "yeh_ar">>,
       <<"ghain", "yeh", "reh", "shadda", "seen", "meem", "yeh">>,
       <<"ghain", "yeh", "reh", "seen", "meem", "yeh">>,
       <<"i", "n", "f", "o", "r", "m", "a", "l">>,
       <<"u", "n", "o", "f", "f", "i", "c", "i", "a", "l">>,
       <<"peh", "yeh", "sheen", "feh", "alef", "kaf", "teh", "waw", "reh">>,
       <<"peh", "yeh", "sheen", "ZWNJ", "feh", "alef", "kaf", "teh", "waw", "reh">>,
       <<"p", "r", "o", "f", "o", "r", "m", "a">> >>

\* lines 162-163: a keyword without spaces and half-spaces, in lower case
NormalizedKeyword(k) == Lower(RemoveChar(RemoveChar(k, " "), "ZWNJ"))

\* lines 165-166, 169-170: some keyword of the list is in the text
AnyKeywordIn(keywords, s_lower) ==
    \E i \in 1..Len(keywords) : Contains(s_lower, NormalizedKeyword(keywords[i]))

\* lines 154-157: the text the keywords are looked for in
StateLower(state) ==
    LET s == ReplaceChar(ReplaceChar(Strip(state), "yeh_ar", "yeh"), "kaf_ar", "kaf")
        s_no_space ==
            RemoveChar(RemoveChar(RemoveChar(RemoveChar(RemoveChar(s,
                " "), "ZWNJ"), "TAB"), "LF"), "CR")
    IN  Lower(s_no_space)

\* lines 165-171, were the formal keywords looked for first
NormalizeStateFormalFirst(state) ==
    IF state = NaNCell \/ state = NanText \/ Strip(state) = <<>> THEN UnknownLabel
    ELSE LET s == ReplaceChar(ReplaceChar(Strip(state), "yeh_ar", "yeh"), "kaf_ar", "kaf")
         IN  IF AnyKeywordIn(formal_keywords, StateLower(state)) THEN FormalLabel
             ELSE IF AnyKeywordIn(informal_keywords, StateLower(state)) THEN InformalLabel
             ELSE IF s # <<>> THEN s
             ELSE UnknownLabel

\* DataProcessor._normalize_state; NaNCell is a state that is no str
_normalize_state(state) ==
    IF state = NaNCell \/ state = NanText \/ Strip(state) = <<>> THEN UnknownLabel
    ELSE LET s == ReplaceChar(ReplaceChar(Strip(state), "yeh_ar", "yeh"), "kaf_ar", "kaf")
         IN  IF AnyKeywordIn(informal_keywords, StateLower(state)) THEN InformalLabel
             ELSE IF AnyKeywordIn(formal_keywords, StateLower(state)) THEN FormalLabel
             ELSE IF s # <<>> THEN s
             ELSE UnknownLabel

-----------------------------------------------------------------------------
(* _clean_phone *)

\* the characters re's \d matches in a str: the ASCII digits and the digits of
\* other scripts, of which the model has the Persian 8 and 9
Digits == {"0", "1", "2", "3", "4", "5", "6", "7", "8", "9", "fa8", "fa9"}

\* phone.startswith(prefix)
StartsWith(text, prefix) ==
    Len(text) >= Len(prefix) /\ SubSeq(text, 1, Len(prefix)) = prefix

\* lines 210-215, were the length not looked at
CleanPhoneAnyLength(phone) ==
    IF phone = NaNCell \/ phone = NanText THEN <<>>
    ELSE LET digits == SelectSeq(phone, LAMBDA c : c \in Digits)
         IN  IF StartsWith(digits, <<"9", "8">>)
             THEN <<"0">> \o SubSeq(digits, 3, Len(digits))
             ELSE digits

\* DataProcessor._clean_phone; NaNCell is a phone that is no str
_clean_phone(phone) ==
    IF phone = NaNCell \/ phone = NanText THEN <<>>
    ELSE LET digits == SelectSeq(phone, LAMBDA c : c \in Digits)
         IN  IF StartsWith(digits, <<"9", "8">>) /\ Len(digits) >= 10
             THEN <<"0">> \o SubSeq(digits, 3, Len(digits))
             ELSE digits

-----------------------------------------------------------------------------
(* The tables.  A raw row is one row of self.df: its index label and its   *)
(* cells 'customer name', 'year' and 'month'.  The other columns (state,   *)
(* address, phones, products) are carried along by every operation here    *)
(* and read by none of them; they are left out.                            *)

RawRow(label, name, year, month) ==
    [label |-> label, name |-> name, year |-> year, month |-> month]

\* the rows of self.df, none when it is None
Rows(d) == IF IsNone(d) THEN <<>> ELSE Get(d)

\* concat and drop, were the labels of the rows kept as they are
KeepLabels(rows) == rows

\* ignore_index=True / reset_index(drop=True): the labels become 0..n-1
ResetIndex(rows) == [i \in 1..Len(rows) |-> [rows[i] EXCEPT !.label = i - 1]]

Labels(rows) == {rows[i].label : i \in 1..Len(rows)}

\* a cell of the year or month column that holds a text that is no number
Unparsable == -2

\* lines 103-104, were the cell kept when it is no number (errors='ignore')
ToNumericKeepsCell(cell) == cell

\* lines 103-104: pd.to_numeric(errors='coerce') of one cell
to_numeric(cell) == IF cell = Unparsable THEN NaN ELSE cell

\* lines 98-104: the cleaned columns of one row
CleanRow(r) ==
    LET customer_name == Strip(AsTypeStr(r.name))
    IN  [label |-> r.label,
         customer_name |-> customer_name,
         customer_name_normalized |-> _normalize_text(customer_name),
         year |-> to_numeric(r.year),
         month |-> to_numeric(r.month)]

\* lines 124-127, line 126 left out
KeepsRowNotEmpty(p) == p.customer_name # <<>>

\* lines 124-127: the rows process_data keeps
KeepsRow(p) == p.customer_name # NanText /\ p.customer_name # <<>>

\* DataProcessor.process_data, lines 96-129: the processed table of the rows
ProcessRows(rows) ==
    SelectSeq([i \in 1..Len(rows) |-> CleanRow(rows[i])], KeepsRow)

\* Series.unique(): the distinct values in order of first appearance
RECURSIVE UniqueInOrder(_, _)
UniqueInOrder(values, seen) ==
    IF values = <<>> THEN <<>>
    ELSE IF Head(values) \in seen THEN UniqueInOrder(Tail(values), seen)
    ELSE <<Head(values)>> \o UniqueInOrder(Tail(values), seen \cup {Head(values)})

\* sorted(), for a set of numbers
RECURSIVE SortedNumbers(_)
SortedNumbers(S) ==
    IF S = {} THEN <<>>
    ELSE LET least == CHOOSE x \in S : \A y \in S : x <= y
         IN  <<least>> \o SortedNumbers(S \ {least})

\* lines 237-272: the aggregate of one customer
IndexEntry(processed, customer_name) ==
    LET customer_data == SelectSeq(processed, LAMBDA p : p.customer_name = customer_name)
        normalized_name == _normalize_text(customer_name)
    IN  [customer_name |-> customer_name,
         normalized_name |-> normalized_name,
         keywords |-> Split(normalized_name),
         total_purchases |-> Len(customer_data),
         years_active |->
             SortedNumbers({customer_data[i].year : i \in 1..Len(customer_data)} \ {NaN}),
         months_active |->
             SortedNumbers({customer_data[i].month : i \in 1..Len(customer_data)} \ {NaN})]

\* DataProcessor._build_customer_index: the dict, as its entries in insertion
\* order (the order in which the names first appear)
_build_customer_index(processed) ==
    LET names == UniqueInOrder([i \in 1..Len(processed) |-> processed[i].customer_name], {})
    IN  [k \in 1..Len(names) |-> IndexEntry(processed, names[k])]

-----------------------------------------------------------------------------
(* search_customer *)

\* SearchMode
SearchModes == {"EXACT", "PARTIAL", "FUZZY", "AUTO"}

RECURSIVE SumSeq(_)
SumSeq(xs) == IF xs = <<>> THEN 0 ELSE Head(xs) + SumSeq(Tail(xs))

\* the comparison of lines 294-296, were it made on the raw name
ExactScoreRawName(info, query_normalized) ==
    IF info.customer_name = query_normalized THEN Rat(100, 1) ELSE Rat(0, 1)

\* lines 294-296
ExactScore(info, query_normalized) ==
    IF info.normalized_name = query_normalized THEN Rat(100, 1) ELSE Rat(0, 1)

\* lines 298-305, were every keyword that contains the query word counted
PartialScoreCountsEveryKeyword(info, query_keywords) ==
    LET hit(q_word) ==
            Cardinality({k \in 1..Len(info.keywords) : Contains(info.keywords[k], q_word)})
        matches == SumSeq([i \in 1..Len(query_keywords) |-> hit(query_keywords[i])])
    IN  IF matches > 0 THEN Rat(matches * 100, Len(query_keywords)) ELSE Rat(0, 1)

\* lines 298-305
PartialScore(info, query_keywords) ==
    LET hit(q_word) ==
            IF \E k \in 1..Len(info.keywords) : Contains(info.keywords[k], q_word)
            THEN 1 ELSE 0
        matches == SumSeq([i \in 1..Len(query_keywords) |-> hit(query_keywords[i])])
    IN  IF matches > 0 THEN Rat(matches * 100, Len(query_keywords)) ELSE Rat(0, 1)

\* lines 307-308
FuzzyScore(info, query_normalized) ==
    fuzz_token_set_ratio(query_normalized, info.normalized_name)

\* lines 318-324: what one query word adds to matches, in tenths: the first
\* keyword that contains it (1.0) or is more than 85 similar (0.8) decides
RECURSIVE AutoWordMatch(_, _)
AutoWordMatch(q_word, keywords) ==
    IF keywords = <<>> THEN 0
    ELSE IF Contains(Head(keywords), q_word) THEN 10
    ELSE IF RatGt(fuzz_ratio(q_word, Head(keywords)), Rat(85, 1)) THEN 8
    ELSE AutoWordMatch(q_word, Tail(keywords))

\* the AUTO branch without the substring test of lines 313-314
AutoScoreNoSubstringTier(info, query_normalized, query_keywords) ==
    LET matches10 ==
            SumSeq([i \in 1..Len(query_keywords) |->
                        AutoWordMatch(query_keywords[i], info.keywords)])
        tsr == fuzz_token_set_ratio(query_normalized, info.normalized_name)
    IN  IF info.normalized_name = query_normalized THEN Rat(100, 1)
        ELSE IF matches10 > 0 THEN Rat(matches10 * 9, Len(query_keywords))
        ELSE Rat(tsr[1] * 4, tsr[2] * 5)

\* lines 310-329
AutoScore(info, query_normalized, query_keywords) ==
    LET matches10 ==
            SumSeq([i \in 1..Len(query_keywords) |->
                        AutoWordMatch(query_keywords[i], info.keywords)])
        tsr == fuzz_token_set_ratio(query_normalized, info.normalized_name)
    IN  IF info.normalized_name = query_normalized THEN Rat(100, 1)
        ELSE IF Contains(info.normalized_name, query_normalized) THEN Rat(95, 1)
        ELSE IF matches10 > 0 THEN Rat(matches10 * 9, Len(query_keywords))
        ELSE Rat(tsr[1] * 4, tsr[2] * 5)

\* lines 292-329: the score of one customer for a query that is not blank
Score(info, query, mode) ==
    LET query_normalized == _normalize_text(query)
        query_keywords == Split(query_normalized)
    IN  CASE mode = "EXACT" -> ExactScore(info, query_normalized)
          [] mode = "PARTIAL" -> PartialScore(info, query_keywords)
          [] mode = "FUZZY" -> FuzzyScore(info, query_normalized)
          [] OTHER -> AutoScore(info, query_normalized, query_keywords)

\* lines 332-345: the SearchResult of a customer (the lists are the index's)
SearchResult(info, score) ==
    [customer_name |-> info.customer_name,
     match_score |-> Round2(score),
     total_purchases |-> info.total_purchases,
     years_active |-> info.years_active,
     months_active |-> info.months_active]

\* line 331, were the comparison strict
MeetsMinScoreStrict(score, min_score) == RatGt(score, Rat(min_score, 1))

\* line 331
MeetsMinScore(score, min_score) == RatGe(score, Rat(min_score, 1))

\* list.sort(key=match_score, reverse=True): stable, highest score first
RECURSIVE InsertByScore(_, _)
InsertByScore(sorted, r) ==
    IF sorted = <<>> THEN <<r>>
    ELSE IF Head(sorted).match_score >= r.match_score
         THEN <<Head(sorted)>> \o InsertByScore(Tail(sorted), r)
         ELSE <<r>> \o sorted

RECURSIVE SortByScoreFrom(_, _)
SortByScoreFrom(results, sorted) ==
    IF results = <<>> THEN sorted
    ELSE SortByScoreFrom(Tail(results), InsertByScore(sorted, Head(results)))

\* the results as collected, line 347 left out
NoSort(results) == results

\* line 347: results.sort by match_score, reverse=True
SortByScore(results) == SortByScoreFrom(results, <<>>)

\* lines 289-345: the results before the sort, in the index's order
RECURSIVE ScoredResults(_, _, _, _)
ScoredResults(index, query, mode, min_score) ==
    IF index = <<>> THEN <<>>
    ELSE LET score == Score(Head(index), query, mode)
             rest == ScoredResults(Tail(index), query, mode, min_score)
         IN  IF MeetsMinScore(score, min_score)
             THEN <<SearchResult(Head(index), score)>> \o rest
             ELSE rest

\* no query counts as blank
IsBlankNever(query) == FALSE

\* line 283
IsBlank(query) == Strip(query) = <<>>

\* DataProcessor.search_customer: the list it returns
search_customer(index, query, mode, min_score) ==
    IF IsBlank(query) THEN <<>>
    ELSE SortByScore(ScoredResults(index, query, mode, min_score))

-----------------------------------------------------------------------------
(* find_lost_customers *)

\* lines 610-616
stopwords ==
    { <<"sheen", "reh", "kaf", "teh">>,
      <<"meem", "vav", "seen", "seen", "heh">>,
      <<"gaf", "reh", "vav", "heh">>,
      <<"seen", "alef", "zeh", "meem", "alef", "noon">>,
      <<"meem", "jeem", "meem", "vav", "ain", "heh">>,
      <<"meem", "heh", "noon", "dal", "seen", "yeh">>,
      <<"peh", "yeh", "meem", "alef", "noon", "kaf", "alef", "reh", "yeh">>,
      <<"seen", "alef", "kheh", "teh", "meem", "alef", "noon", "yeh">>,
      <<"ain", "meem", "reh", "alef", "noon", "yeh">>,
      <<"teh", "jeem", "alef", "reh", "yeh">>,
      <<"sad", "noon", "ain", "teh", "yeh">>,
      <<"kheh", "dal", "meem", "alef", "teh", "yeh">>,
      <<"feh", "noon", "yeh">>,
      <<"teh", "vav", "lam", "yeh", "dal", "yeh">>,
      <<"beh", "alef", "zeh", "reh", "gaf", "alef", "noon", "yeh">>,
      <<"peh", "reh", "vav", "zheh", "heh">>,
      <<"seen", "heh", "alef", "meem", "yeh">>,
      <<"kheh", "alef", "sad">>,
      <<"ain", "alef", "meem">>,
      <<"meem", "hah", "dal", "vav", "dal">>,
      <<"vav">>,
      <<"dal", "reh">>,
      <<"beh", "heh">>,
      <<"alef", "zeh">>,
      <<"beh", "alef">> }

\* DataProcessor._extract_keywords
_extract_keywords(name) ==
    SelectSeq(Split(_normalize_text(name)),
              LAMBDA word : word \notin stopwords /\ Len(word) > 2)

\* lines 638-650: the scan of keywords2 for one kw1.  best is the similarity
\* of the best keyword so far (100 * best_match), best_kw2 that keyword
RECURSIVE ScanKeywords2(_, _, _, _, _, _)
ScanKeywords2(kw1, keywords2, used_keywords2, threshold, best, best_kw2) ==
    IF keywords2 = <<>> THEN [best |-> best, best_kw2 |-> best_kw2]
    ELSE LET kw2 == Head(keywords2)
             similarity == fuzz_ratio(kw1, kw2)
         IN  IF kw2 \in used_keywords2
             THEN ScanKeywords2(kw1, Tail(keywords2), used_keywords2, threshold,
                                best, best_kw2)
             ELSE IF kw1 = kw2
             THEN [best |-> Rat(100, 1), best_kw2 |-> Some(kw2)]
             ELSE IF RatGe(similarity, Rat(threshold, 1)) /\ RatGt(similarity, best)
             THEN ScanKeywords2(kw1, Tail(keywords2), used_keywords2, threshold,
                                similarity, Some(kw2))
             ELSE ScanKeywords2(kw1, Tail(keywords2), used_keywords2, threshold,
                                best, best_kw2)

\* lines 634-656: 100 * match_count after the keywords1 still to come
RECURSIVE MatchKeywords1(_, _, _, _, _)
MatchKeywords1(keywords1, keywords2, threshold, match_count, used_keywords2) ==
    IF keywords1 = <<>> THEN match_count
    ELSE LET m == ScanKeywords2(Head(keywords1), keywords2, used_keywords2,
                                threshold, Rat(0, 1), None)
         IN  IF IsNone(m.best_kw2)
             THEN MatchKeywords1(Tail(keywords1), keywords2, threshold,
                                 match_count, used_keywords2)
             ELSE MatchKeywords1(Tail(keywords1), keywords2, threshold,
                                 RatAdd(match_count, m.best),
                                 used_keywords2 \cup {Get(m.best_kw2)})

\* lines 634-656, were no keyword of keywords2 ever marked as used
RECURSIVE KeywordMatchReusesKeywords(_, _, _)
KeywordMatchReusesKeywords(keywords1, keywords2, threshold) ==
    IF keywords1 = <<>> THEN Rat(0, 1)
    ELSE LET m == ScanKeywords2(Head(keywords1), keywords2, {}, threshold, Rat(0, 1), None)
             rest == KeywordMatchReusesKeywords(Tail(keywords1), keywords2, threshold)
         IN  IF IsNone(m.best_kw2) THEN rest ELSE RatAdd(m.best, rest)

\* DataProcessor._calculate_keyword_match, times 100
_calculate_keyword_match(keywords1, keywords2, threshold) ==
    MatchKeywords1(keywords1, keywords2, threshold, Rat(0, 1), {})

\* lines 503-504, 508-509, were an unknown year in every window
InWindowOrUnknown(year, start, end) == year = NaN \/ (year >= start /\ year <= end)

\* lines 503-504, 508-509: a year lies in a window; NaN lies in none
InWindow(year, start, end) == year # NaN /\ year >= start /\ year <= end

\* lines 663-668, were ten purchases not yet enough for the first tier
PriorityAboveTen(purchases, last_year) ==
    IF purchases > 10 /\ last_year >= 1402 THEN "high"
    ELSE IF purchases >= 5 /\ last_year >= 1401 THEN "medium"
    ELSE "low"

\* DataProcessor._calculate_priority
_calculate_priority(purchases, last_year) ==
    IF purchases >= 10 /\ last_year >= 1402 THEN "high"
    ELSE IF purchases >= 5 /\ last_year >= 1401 THEN "medium"
    ELSE "low"

\* the largest of a non-empty set of numbers
MaxOf(S) == CHOOSE x \in S : \A y \in S : y <= x

\* lines 515-543: the summary of one customer's rows in the active window
ActiveGroup(active_customers, customer_name) ==
    LET group == SelectSeq(active_customers, LAMBDA p : p.customer_name = customer_name)
        last_month_series == SelectSeq(group, LAMBDA p : p.month # NaN)
    IN  [customer_name |-> customer_name,
         last_year |-> MaxOf({group[i].year : i \in 1..Len(group)}),
         last_month |-> IF Len(last_month_series) > 0
                        THEN last_month_series[Len(last_month_series)].month
                        ELSE 0,
         total_purchases |-> Len(group)]

\* the loop of lines 559-576, were one matching keyword always enough
IsFoundByOneKeyword(old_name, recent_names, min_keyword_match, similarity_threshold) ==
    \E k \in 1..Len(recent_names) :
        RatGe(_calculate_keyword_match(_extract_keywords(old_name),
                                       _extract_keywords(recent_names[k]),
                                       similarity_threshold),
              Rat(100, 1))

\* lines 559-576: some name of the silent window matches the keywords
IsFound(old_name, recent_names, min_keyword_match, similarity_threshold) ==
    \E k \in 1..Len(recent_names) :
        RatGe(_calculate_keyword_match(_extract_keywords(old_name),
                                       _extract_keywords(recent_names[k]),
                                       similarity_threshold),
              Rat(100 * min_keyword_match, 1))

\* the candidates in the order of the groups, line 598 left out
AppendByCount(sorted, r) == Append(sorted, r)

\* line 598: sort_values('count', ascending=False); rows of equal count keep
\* their order (the sort of a table this small is an insertion sort)
RECURSIVE InsertByCount(_, _)
InsertByCount(sorted, r) ==
    IF sorted = <<>> THEN <<r>>
    ELSE IF Head(sorted).total_purchases >= r.total_purchases
         THEN <<Head(sorted)>> \o InsertByCount(Tail(sorted), r)
         ELSE <<r>> \o sorted

RECURSIVE SortByCountFrom(_, _)
SortByCountFrom(rows, sorted) ==
    IF rows = <<>> THEN sorted
    ELSE SortByCountFrom(Tail(rows), InsertByCount(sorted, Head(rows)))

\* DataProcessor.find_lost_customers, lines 502-606: the rows of the frame it
\* returns, for processed data that is not None
find_lost_customers(processed, active_period_start, active_period_end, silent_period_start, silent_period_end, min_keyword_match, similarity_threshold, min_purchase_count) ==
    LET active_customers ==
            SelectSeq(processed,
                      LAMBDA p : InWindow(p.year, active_period_start, active_period_end))
        recent_customers ==
            SelectSeq(processed,
                      LAMBDA p : InWindow(p.year, silent_period_start, silent_period_end))
        \* groupby('customer_name') yields the groups in the order of their names
        group_names ==
            SortedTokens({active_customers[i].customer_name :
                              i \in 1..Len(active_customers)})
        active_groups ==
            [k \in 1..Len(group_names) |-> ActiveGroup(active_customers, group_names[k])]
        active_unique ==
            SelectSeq(active_groups, LAMBDA g : g.total_purchases >= min_purchase_count)
        recent_names ==
            UniqueInOrder([i \in 1..Len(recent_customers) |->
                               recent_customers[i].customer_name], {})
        lost_customers ==
            SelectSeq(active_unique,
                      LAMBDA g : ~IsFound(g.customer_name, recent_names,
                                          min_keyword_match, similarity_threshold))
        result_df == SortByCountFrom(lost_customers, <<>>)
    IN  [i \in 1..Len(result_df) |->
            [customer_name |-> result_df[i].customer_name,
             last_year |-> result_df[i].last_year,
             last_month |-> result_df[i].last_month,
             total_purchases |-> result_df[i].total_purchases,
             priority |-> _calculate_priority(result_df[i].total_purchases,
                                              result_df[i].last_year)]]

-----------------------------------------------------------------------------
(* The calls.  ret is what the last call gave back to its caller: the call, *)
(* its arguments and either the value it returned or that it raised; the   *)
(* caller takes it (Return) before it makes the next call.                 *)

NoCall == [op |-> "none"]

Raised(call) == [call EXCEPT !.status = "raised"]

\* all tables of at most n rows whose cells come from the given sets
TablesUpTo(n, names, years, months) ==
    UNION {[1..k -> [name : names, year : years, month : months]] : k \in 0..n}

\* line 78: the frames of the sheets, concatenated with ignore_index=True
FrameOf(table) ==
    [i \in 1..Len(table) |->
        RawRow(i - 1, table[i].name, table[i].year, table[i].month)]

\* DataProcessor.__init__
Init ==
    /\ df = None
    /\ processed_data = None
    /\ customer_index = <<>>
    /\ processed_ok = FALSE
    /\ ret = NoCall

\* DataProcessor.load_data: the workbook holds any of the tables of Files, or
\* cannot be read
LoadData(Files) ==
    /\ ret = NoCall
    /\ \/ \E table \in Files :
            /\ df' = Some(FrameOf(table))
            /\ ret' = [op |-> "load_data", status |-> "returned"]
       \/ /\ df' = df
          /\ ret' = [op |-> "load_data", status |-> "raised"]
    /\ UNCHANGED <<processed_data, customer_index, processed_ok>>

\* process_data without the rebuild of line 130
ProcessedStale(rows) ==
    /\ processed_data' = Some(ProcessRows(rows))
    /\ customer_index' = customer_index
    /\ processed_ok' = TRUE

\* lines 96-130 on the rows of self.df: processed_data and the index after them
Processed(rows) ==
    /\ processed_data' = Some(ProcessRows(rows))
    /\ customer_index' = _build_customer_index(ProcessRows(rows))
    /\ processed_ok' = TRUE

\* DataProcessor.process_data, called with no frame
ProcessData ==
    /\ ret = NoCall
    /\ IF IsNone(df)
       THEN /\ ret' = [op |-> "process_data", status |-> "raised"]
            /\ UNCHANGED <<df, processed_data, customer_index, processed_ok>>
       ELSE /\ Processed(Rows(df))
            /\ ret' = [op |-> "process_data", status |-> "returned"]
            /\ UNCHANGED df

\* app.py, lines 89-92 (and 73-76): load_data, then process_data
AppReload(Files) ==
    /\ ret = NoCall
    /\ \/ \E table \in Files :
            /\ df' = Some(FrameOf(table))
            /\ Processed(FrameOf(table))
            /\ ret' = [op |-> "reload", status |-> "returned"]
       \/ /\ ret' = [op |-> "reload", status |-> "raised"]
          /\ UNCHANGED <<df, processed_data, customer_index, processed_ok>>

\* DataProcessor.add_customer; save_to_excel may fail, after the tables changed
AddCustomer(Names, Years, Months, limit) ==
    /\ ret = NoCall
    /\ Len(Rows(df)) < limit
    /\ \E customer_name \in Names, year \in Years, month \in Months, saved \in BOOLEAN :
          LET new_row == RawRow(0, customer_name, year, month)
              rows == ResetIndex(Rows(df) \o <<new_row>>)
          IN  /\ df' = Some(rows)
              /\ Processed(rows)
              /\ ret' = [op |-> "add_customer", status |-> "returned", value |-> saved]

\* "if customer_name:": the text argument is neither None nor ''
IsGivenText(arg) == ~IsNone(arg) /\ Get(arg) # <<>>

\* "if year:", "if month:": the number argument is neither None nor 0
IsGivenNumber(arg) == ~IsNone(arg) /\ Get(arg) # 0

\* self.df.at[index, column] = value: the cell of the row labelled index, or, when
\* no row has that label, a new row with that label and every other cell missing
SetAt(rows, index, column, value) ==
    IF index \in Labels(rows)
    THEN [i \in 1..Len(rows) |->
             IF rows[i].label = index
             THEN [rows[i] EXCEPT ![column] = value]
             ELSE rows[i]]
    ELSE Append(rows, [RawRow(index, NaNCell, NaN, NaN) EXCEPT ![column] = value])

SetIfGiven(rows, index, column, arg, given) ==
    IF given THEN SetAt(rows, index, column, Get(arg)) ELSE rows

\* DataProcessor.update_customer
UpdateCustomer(Indexes, NameArgs, YearArgs, MonthArgs) ==
    /\ ret = NoCall
    /\ \E index \in Indexes, customer_name \in NameArgs, year \in YearArgs,
          month \in MonthArgs, saved \in BOOLEAN :
          LET call == [op |-> "update_customer", status |-> "returned", value |-> FALSE,
                       args |-> [index |-> index, customer_name |-> customer_name,
                                 year |-> year, month |-> month]]
              rows1 == SetIfGiven(Rows(df), index, "name", customer_name,
                                  IsGivenText(customer_name))
              rows2 == SetIfGiven(rows1, index, "year", year, IsGivenNumber(year))
              rows == SetIfGiven(rows2, index, "month", month, IsGivenNumber(month))
          IN  /\ Len(rows) <= MaxRows
              /\ IF IsNone(df)
                 THEN \* self.df.at, or process_data, raises: caught, False
                      /\ ret' = call
                      /\ UNCHANGED <<df, processed_data, customer_index, processed_ok>>
                 ELSE /\ df' = Some(rows)
                      /\ Processed(rows)
                      /\ ret' = [call EXCEPT !.value = saved]

\* DataProcessor.delete_customer
DeleteCustomer(Indexes) ==
    /\ ret = NoCall
    /\ \E index \in Indexes, saved \in BOOLEAN :
          LET call == [op |-> "delete_customer", status |-> "returned", value |-> FALSE,
                       args |-> [index |-> index]]
              rows == ResetIndex(SelectSeq(Rows(df), LAMBDA r : r.label # index))
          IN  IF IsNone(df) \/ index \notin Labels(Rows(df))
              THEN \* self.df.drop raises: caught, False
                   /\ ret' = call
                   /\ UNCHANGED <<df, processed_data, customer_index, processed_ok>>
              ELSE /\ df' = Some(rows)
                   /\ Processed(rows)
                   /\ ret' = [call EXCEPT !.value = saved]

\* search_customer, were it to raise while no processed data exists
SearchCustomerNotReady(Queries, MinScores) ==
    /\ ret = NoCall
    /\ \E query \in Queries, mode \in SearchModes, min_score \in MinScores :
          LET call == [op |-> "search_customer", query |-> query, mode |-> mode,
                       min_score |-> min_score, status |-> "returned", value |-> <<>>]
          IN  IF IsNone(processed_data) /\ ~IsBlank(query)
              THEN ret' = Raised(call)
              ELSE ret' = [call EXCEPT !.value =
                              search_customer(customer_index, query, mode, min_score)]
    /\ UNCHANGED <<df, processed_data, customer_index, processed_ok>>

\* search_customer, were it to keep only the customers it returned in the index
SearchCustomerPrunesIndex(Queries, MinScores) ==
    /\ ret = NoCall
    /\ \E query \in Queries, mode \in SearchModes, min_score \in MinScores :
          LET results == search_customer(customer_index, query, mode, min_score)
          IN  /\ ret' = [op |-> "search_customer", query |-> query, mode |-> mode,
                         min_score |-> min_score, status |-> "returned",
                         value |-> results]
              /\ customer_index' =
                     SelectSeq(customer_index,
                               LAMBDA e : \E i \in 1..Len(results) :
                                             results[i].customer_name = e.customer_name)
    /\ UNCHANGED <<df, processed_data, processed_ok>>

\* DataProcessor.search_customer
SearchCustomer(Queries, MinScores) ==
    /\ ret = NoCall
    /\ \E query \in Queries, mode \in SearchModes, min_score \in MinScores :
          ret' = [op |-> "search_customer", query |-> query, mode |-> mode,
                  min_score |-> min_score, status |-> "returned",
                  value |-> search_customer(customer_index, query, mode, min_score)]
    /\ UNCHANGED <<df, processed_data, customer_index, processed_ok>>

\* the arguments of find_lost_customers
LostArgs(Windows, KeywordMatches, Thresholds, PurchaseCounts) ==
    [window : Windows, min_keyword_match : KeywordMatches,
     similarity_threshold : Thresholds, min_purchase_count : PurchaseCounts]

LostFor(processed, a) ==
    find_lost_customers(processed, a.window[1], a.window[2], a.window[3], a.window[4],
                        a.min_keyword_match, a.similarity_threshold,
                        a.min_purchase_count)

\* find_lost_customers without the test of lines 499-500
FindLostCustomersUnguarded(Args) ==
    /\ ret = NoCall
    /\ \E a \in Args :
          ret' = [op |-> "find_lost_customers", args |-> a, status |-> "returned",
                  value |-> LostFor(Rows(processed_data), a)]
    /\ UNCHANGED <<df, processed_data, customer_index, processed_ok>>

\* DataProcessor.find_lost_customers
FindLostCustomers(Args) ==
    /\ ret = NoCall
    /\ \E a \in Args :
          LET call == [op |-> "find_lost_customers", args |-> a,
                       status |-> "returned", value |-> <<>>]
          IN  IF IsNone(processed_data)
              THEN ret' = Raised(call)
              ELSE ret' = [call EXCEPT !.value = LostFor(Get(processed_data), a)]
    /\ UNCHANGED <<df, processed_data, customer_index, processed_ok>>

\* DataProcessor._normalize_state, called on one state
NormalizeState(States) ==
    /\ ret = NoCall
    /\ \E state \in States :
          ret' = [op |-> "_normalize_state", state |-> state,
                  value |-> _normalize_state(state)]
    /\ UNCHANGED <<df, processed_data, customer_index, processed_ok>>

\* DataProcessor._calculate_priority, called on one row of the candidates
CalculatePriority(Purchases, LastYears) ==
    /\ ret = NoCall
    /\ \E purchases \in Purchases, last_year \in LastYears :
          ret' = [op |-> "_calculate_priority", purchases |-> purchases,
                  last_year |-> last_year,
                  value |-> _calculate_priority(purchases, last_year)]
    /\ UNCHANGED <<df, processed_data, customer_index, processed_ok>>

\* lines 338-343 hand the lists of the index entry to the SearchResult, not
\* copies of them: the caller that appends a year to the years_active of a result
\* it holds appends it to the list of the index entry, which is the same list
ModifyResult(Years) ==
    /\ ret.op = "search_customer"
    /\ \E i \in 1..Len(ret.value), year \in Years :
          /\ \A j \in 1..Len(ret.value[i].years_active) :
                 ret.value[i].years_active[j] # year
          /\ ret' = [ret EXCEPT !.value[i].years_active = Append(@, year)]
          /\ customer_index' =
                 [k \in 1..Len(customer_index) |->
                     IF customer_index[k].customer_name = ret.value[i].customer_name
                     THEN [customer_index[k] EXCEPT !.years_active = Append(@, year)]
                     ELSE customer_index[k]]
    /\ UNCHANGED <<df, processed_data, processed_ok>>

\* DataProcessor._clean_phone, called on one cell
CleanPhone(Phones) ==
    /\ ret = NoCall
    /\ \E phone \in Phones :
          ret' = [op |-> "_clean_phone", phone |-> phone, value |-> _clean_phone(phone)]
    /\ UNCHANGED <<df, processed_data, customer_index, processed_ok>>

\* DataProcessor._calculate_keyword_match, called on two lists of keywords;
\* the value is 100 times the score, as a fraction
CalculateKeywordMatch(KeywordLists, Thresholds) ==
    /\ ret = NoCall
    /\ \E keywords1 \in KeywordLists, keywords2 \in KeywordLists, threshold \in Thresholds :
          ret' = [op |-> "_calculate_keyword_match", keywords1 |-> keywords1,
                  keywords2 |-> keywords2, threshold |-> threshold,
                  value |-> _calculate_keyword_match(keywords1, keywords2, threshold)]
    /\ UNCHANGED <<df, processed_data, customer_index, processed_ok>>

\* DataProcessor._normalize_text, called on one text
NormalizeText(Texts) ==
    /\ ret = NoCall
    /\ \E text \in Texts :
          ret' = [op |-> "_normalize_text", text |-> text, value |-> _normalize_text(text)]
    /\ UNCHANGED <<df, processed_data, customer_index, processed_ok>>

\* the call has returned to its caller, which goes on
Return ==
    /\ ret # NoCall
    /\ ret' = NoCall
    /\ UNCHANGED <<df, processed_data, customer_index, processed_ok>>

-----------------------------------------------------------------------------
(* The inputs *)

\* the most rows a workbook read by load_data holds
MaxFileRows == 1

\* the slider of app.py, line 225, runs from 0 to 100
MinScores == {0, 60, 95, 100}

\* the defaults of find_lost_customers: the two windows, lines 490-493
DefaultWindow == <<1393, 1402, 1403, 1404>>

(* the record-keeping calls *)
CrmNames == { <<"a", "b">>, <<"a", "b", " ">>, <<"c">>, NanText }
CrmYears == {1400}
CrmMonths == {5}
CrmFiles ==
    TablesUpTo(MaxFileRows, CrmNames \cup {NaNCell}, CrmYears \cup {NaN, Unparsable},
               CrmMonths \cup {Unparsable})
CrmNameArgs == {None, Some(<<>>), Some(<<"a", "b">>), Some(<<"c">>)}
CrmYearArgs == {None, Some(1403)}
CrmMonthArgs == {None}

Next ==
    \/ LoadData(CrmFiles)
    \/ ProcessData
    \/ AddCustomer(CrmNames, CrmYears, CrmMonths, MaxRows)
    \/ UpdateCustomer(0..MaxRows, CrmNameArgs, CrmYearArgs, CrmMonthArgs)
    \/ DeleteCustomer(0..MaxRows)
    \/ SearchCustomer({<<"a", "b">>, <<" ">>}, {60})
    \/ FindLostCustomers(LostArgs({DefaultWindow}, {1, 2}, {85}, {1}))
    \/ Return

Spec == Init /\ [][Next]_vars

(* searching *)
SearchNames ==
    { <<"a", "b", "c", " ", "d", "e", "f">>,
      <<"A", "B", "C">>,
      <<"d", "e", "f">>,
      <<"a", "b", "c", "d">>,
      <<"a", "b", "c", " ", "a", "b", "c">>,
      <<"kaf_ar", "a", "ZWNJ", "d", "e", "f">> }
SearchQueries ==
    { <<"a", "b", "c">>,
      <<" ", "A", "b", "c", " ">>,
      <<"d", "e", "f", " ", "a", "b", "c">>,
      <<"a", "b", "c", "e">>,
      <<"a", "b", "c", " ", "a", "b", "c">>,
      <<"a", "b", "c", " ", "x", "y", "z">>,
      <<"kaf", "a">>,
      <<" ", "TAB">>,
      <<"ZWNJ">>,
      <<>> }
SearchFiles == TablesUpTo(MaxFileRows, SearchNames \cup {NaNCell}, {1400}, {5})

SearchNext ==
    \/ AppReload(SearchFiles)
    \/ AddCustomer(SearchNames, {1400}, {5}, MaxSearchRows)
    \/ SearchCustomer(SearchQueries, MinScores)
    \/ Return

SearchSpec == Init /\ [][SearchNext]_vars

(* lost customers *)
LostNames ==
    { <<"a", "b", "c">>,
      <<"a", "b", "c", " ", "d", "e", "f">>,
      <<"a", "b", "c", "d", " ", "d", "e", "f">>,
      <<"A", "B", "C", " ", "D", "E", "F">>,
      <<"feh", "noon", "yeh_ar", " ", "a", "b", "c">> }
LostYears == {1400, 1403}
LostFiles == TablesUpTo(MaxFileRows, LostNames, LostYears \cup {NaN}, {5})
LostCalls == LostArgs({DefaultWindow}, {1, 2}, {85, 100}, {1, 2})

LostNext ==
    \/ AppReload(LostFiles)
    \/ AddCustomer(LostNames, LostYears, {5}, MaxLostRows)
    \/ FindLostCustomers(LostCalls)
    \/ Return

LostSpec == Init /\ [][LostNext]_vars

(* order states *)
\* what a state starts with: nothing, 'غیر' (with either yeh), or a Latin word
StatePrefixes ==
    { <<>>,
      <<"ghain", "yeh", "reh">>,
      <<"ghain", "yeh_ar", "reh">>,
      <<"i", "n">>,
      <<"I", "N">>,
      <<"i", "n", "f", "o", "r", "m", "a", "l">>,
      <<"p", "e", "n", "d", "i", "n", "g">> }
\* what stands between the two parts
StateSeparators ==
    { <<>>, <<" ">>, <<"ZWNJ">>, <<"TAB">>, <<"NBSP">>, <<"-">>, <<"-", " ">>, <<"x">> }
\* what a state ends with
StateSuffixes ==
    { <<>>,
      <<"reh", "seen", "meem", "yeh">>,
      <<"reh", "seen", "meem", "yeh_ar">>,
      <<"f", "o", "r", "m", "a", "l">>,
      <<"F", "o", "r", "m", "a", "l", " ">>,
      <<"feh", "alef", "kaf_ar", "teh", "waw", "reh">>,
      <<"n", "a", "n">> }
States ==
    {prefix \o separator \o suffix :
        prefix \in StatePrefixes, separator \in StateSeparators, suffix \in StateSuffixes}
    \cup {NaNCell, FormalLabel, InformalLabel, UnknownLabel}

StateNext ==
    \/ NormalizeState(States)
    \/ Return

StateSpec == Init /\ [][StateNext]_vars

(* priorities *)
\* the purchase counts and last years of the candidates: the counts a customer of
\* up to MaxPurchases records has, the years the page offers (1390-1404) and 0,
\* the last year of a group whose years are all unknown
MaxPurchases == 15
PriorityPurchases == 1..MaxPurchases
PriorityYears == {0} \cup (1390..1404)

PriorityNext ==
    \/ CalculatePriority(PriorityPurchases, PriorityYears)
    \/ Return

PrioritySpec == Init /\ [][PriorityNext]_vars

(* callers that change the results they hold *)
AliasNames == { <<"a", "b", "c">>, <<"d", "e", "f">> }
AliasFiles == TablesUpTo(MaxFileRows, AliasNames, {1400, 1401}, {5})

AliasNext ==
    \/ AppReload(AliasFiles)
    \/ AddCustomer(AliasNames, {1400, 1401}, {5}, MaxRows)
    \/ SearchCustomer({<<"a", "b", "c">>, <<"e">>}, {0, 60})
    \/ ModifyResult({1404})
    \/ Return

AliasSpec == Init /\ [][AliasNext]_vars

(* phone numbers *)
\* how a phone cell starts, goes on and ends
PhonePrefixes ==
    { <<>>, <<"+">>, <<"+", "9", "8">>, <<"9", "8">>, <<"0", "0", "9", "8">>,
      <<"0">>, <<" ", "9", "8", "-">>, <<"fa9", "fa8">> }
PhoneBodies ==
    { <<>>,
      <<"9", "1", "2", "3", "4", "5", "6", "7", "8", "9">>,
      <<"9", "1", "2", " ", "3", "4", "5", "-", "6", "7", "8", "9">>,
      <<"1", "2", "3", "4", "5", "6", "7", "8">>,
      <<"1", "2", "3", "4", "5", "6", "7">>,
      <<"9", "8">> }
PhoneSuffixes == { <<>>, <<" ">>, <<"x", "1">> }
Phones ==
    {prefix \o body \o suffix :
        prefix \in PhonePrefixes, body \in PhoneBodies, suffix \in PhoneSuffixes}
    \cup {NaNCell, NanText}

PhoneNext ==
    \/ CleanPhone(Phones)
    \/ Return

PhoneSpec == Init /\ [][PhoneNext]_vars

(* keyword lists *)
\* the most keywords a name has
MaxKeywords == 2
\* keywords that are 75 similar to one another, and one that is like none
KeywordPool ==
    { <<"a", "b", "c", "d">>, <<"a", "b", "c", "e">>, <<"a", "b", "c", "f">>,
      <<"w", "x", "y", "z">> }
KeywordLists == UNION {[1..n -> KeywordPool] : n \in 0..MaxKeywords}

KeywordNext ==
    \/ CalculateKeywordMatch(KeywordLists, {70, 85})
    \/ Return

KeywordSpec == Init /\ [][KeywordNext]_vars

(* the keyword tier of AUTO *)
\* names of two keywords, one that contains the query word "abcdefg" and one
\* that is more than 85 similar to it, in both orders, and a name of one
AutoNames ==
    { <<"a", "b", "c", "d", "e", "f", "h", " ", "a", "b", "c", "d", "e", "f", "g", "x">>,
      <<"a", "b", "c", "d", "e", "f", "g", "x", " ", "a", "b", "c", "d", "e", "f", "h">>,
      <<"a", "b", "c", "d", "e", "f", "h">> }
AutoQueries ==
    { <<"a", "b", "c", "d", "e", "f", "g", " ", "a", "b", "c", "d", "e", "f", "g">>,
      <<"a", "b", "c", "d", "e", "f", "g", " ", "q">>,
      <<"q", " ", "a", "b", "c", "d", "e", "f", "h">> }
AutoFiles == TablesUpTo(MaxFileRows, AutoNames, {1400}, {5})

AutoNext ==
    \/ AppReload(AutoFiles)
    \/ AddCustomer(AutoNames, {1400}, {5}, MaxRows)
    \/ SearchCustomer(AutoQueries, {0, 60})
    \/ Return

AutoSpec == Init /\ [][AutoNext]_vars

(* the last year and month of a customer *)
SeenNames == { <<"a", "b", "c">>, <<"d", "e", "f">> }
SeenYears == {1400, 1401}
SeenMonths == {3, 7}
SeenFiles == TablesUpTo(MaxFileRows, SeenNames, SeenYears, SeenMonths \cup {Unparsable})
SeenCalls == LostArgs({DefaultWindow}, {1, 2}, {85}, {1, 2})

SeenNext ==
    \/ AppReload(SeenFiles)
    \/ AddCustomer(SeenNames, SeenYears, SeenMonths, MaxLostRows)
    \/ FindLostCustomers(SeenCalls)
    \/ Return

SeenSpec == Init /\ [][SeenNext]_vars

(* texts to normalize *)
\* how a text starts, goes on and ends
TextPrefixes == { <<>>, <<" ">>, <<"ZWNJ">>, <<"TAB", " ">>, <<"NBSP">> }
TextBodies ==
    { <<>>,
      <<"n", "a", "n">>,
      <<"N", "A", "N">>,
      <<"N", "a", "n">>,
      <<"n", "a", "ZWNJ", "n">>,
      <<"n", "a", "n", " ", "n", "a", "n">>,
      <<"a", " ", " ", "B">>,
      <<"kaf_ar", "yeh_ar", "ZWNJ", "kaf", "yeh">>,
      <<"a", "LF", "TAB", "b">> }
TextSuffixes == { <<>>, <<" ">>, <<"ZWNJ">>, <<"LF">> }
Texts ==
    {prefix \o body \o suffix :
        prefix \in TextPrefixes, body \in TextBodies, suffix \in TextSuffixes}

TextNext ==
    \/ NormalizeText(Texts)
    \/ Return

TextSpec == Init /\ [][TextNext]_vars

-----------------------------------------------------------------------------
(* What the claims speak of *)

IsSearch == ret.op = "search_customer"
IsLost == ret.op = "find_lost_customers"

\* the query is empty after trimming
BlankQuery == Strip(ret.query) = <<>>

\* the cleaned customer name of a raw row; a missing cell reads 'nan'
CleanName(r) == Strip(AsTypeStr(r.name))

\* the customer names of the raw rows that are neither empty nor missing
CustomerNames(rows) == {CleanName(rows[i]) : i \in 1..Len(rows)} \ {<<>>, NanText}

\* the index is the aggregate of the rows: one entry per customer name of the
\* rows, which counts the rows of that name
IndexIsAggregateOf(rows) ==
    /\ {customer_index[k].customer_name : k \in 1..Len(customer_index)} = CustomerNames(rows)
    /\ Len(customer_index) = Cardinality(CustomerNames(rows))
    /\ \A k \in 1..Len(customer_index) :
          customer_index[k].total_purchases =
              Cardinality({i \in 1..Len(rows) :
                              CleanName(rows[i]) = customer_index[k].customer_name})

\* the processed rows of a customer name whose year lies in a window
RowsInWindow(name, start, end) ==
    {i \in 1..Len(Rows(processed_data)) :
        /\ Get(processed_data)[i].customer_name = name
        /\ InWindow(Get(processed_data)[i].year, start, end)}

\* the customer names with a processed row in a window
NamesInWindow(start, end) ==
    {Get(processed_data)[i].customer_name : i \in
        {j \in 1..Len(Rows(processed_data)) :
            InWindow(Get(processed_data)[j].year, start, end)}}

\* the names of the candidates that find_lost_customers returned
LostNamesReturned == {ret.value[i].customer_name : i \in 1..Len(ret.value)}

\* the customer has rows in the active window, and rows in the silent window
\* under a name with the same normalized form
InBothWindows(name, w) ==
    /\ RowsInWindow(name, w[1], w[2]) # {}
    /\ \E other \in NamesInWindow(w[3], w[4]) :
          _normalize_text(other) = _normalize_text(name)

\* the keyword-match score of two names reaches min_keyword_match
Matches(name, other, a) ==
    RatGe(_calculate_keyword_match(_extract_keywords(name), _extract_keywords(other),
                                   a.similarity_threshold),
          Rat(100 * a.min_keyword_match, 1))

(* C1: find_lost_customers, with min_keyword_match 2, never returns a customer
   that has records in the active window and in the silent window under an
   identical normalized name.  The code returns such a customer whenever its
   name has fewer than two keywords. *)
C1_NeverLostWhenInBothWindows ==
    (IsLost /\ ret.status = "returned" /\ ret.args.min_keyword_match = 2)
        => \A name \in LostNamesReturned : ~InBothWindows(name, ret.args.window)

(* C2: find_lost_customers returns every customer that has at least
   min_purchase_count (>= 1) records in the active window and whose keywords
   no customer name of the silent window matches with a score of
   min_keyword_match or more. *)
C2_EveryUnmatchedCustomerReturned ==
    (IsLost /\ ret.status = "returned")
        => \A name \in NamesInWindow(ret.args.window[1], ret.args.window[2]) :
              ( /\ Cardinality(RowsInWindow(name, ret.args.window[1], ret.args.window[2]))
                       >= ret.args.min_purchase_count
                /\ \A other \in NamesInWindow(ret.args.window[3], ret.args.window[4]) :
                       ~Matches(name, other, ret.args) )
              => name \in LostNamesReturned

\* a call with min_keyword_match 2 that returned one customer and held back another,
\* whose name a name of the silent window matches
C2_Witness ==
    /\ IsLost /\ ret.status = "returned" /\ ret.args.min_keyword_match = 2
    /\ Len(ret.value) = 1
    /\ NamesInWindow(ret.args.window[3], ret.args.window[4]) # {}
    /\ \E name \in NamesInWindow(ret.args.window[1], ret.args.window[2]) :
          name \notin LostNamesReturned

(* C3, as claimed: once load_data, process_data, add_customer, update_customer
   or delete_customer has returned, the customer index is the aggregate of the
   current record set. *)
C3_IndexCurrentAfterEveryCall ==
    ret.op \in {"load_data", "process_data", "add_customer", "update_customer",
                "delete_customer"}
        => IndexIsAggregateOf(Rows(df))

(* C3, amended: the customer index is the aggregate of the current record set
   once process_data has returned without error or add_customer,
   update_customer or delete_customer has returned True; load_data alone does
   not rebuild it. *)
C3_IndexCurrentAfterProcessing ==
    ( \/ ret.op = "process_data" /\ ret.status = "returned"
      \/ ret.op \in {"add_customer", "update_customer", "delete_customer"} /\ ret.value )
        => IndexIsAggregateOf(Rows(df))

\* update_customer returned True and left one customer with two records
C3_Witness ==
    /\ ret.op = "update_customer" /\ ret.value
    /\ Len(Rows(df)) = 2
    /\ Len(customer_index) = 1
    /\ customer_index[1].total_purchases = 2

(* C4, as claimed: search_customer with a non-empty query, before any
   process_data has succeeded, fails with an error. *)
C4_SearchBeforeIndexRaises ==
    (IsSearch /\ ~BlankQuery /\ ~processed_ok) => ret.status = "raised"

(* C4, amended: search_customer with a non-empty query, before any
   process_data has succeeded, raises no error and returns an empty
   sequence. *)
C4_SearchBeforeIndexIsEmpty ==
    (IsSearch /\ ~BlankQuery /\ ~processed_ok)
        => ret.status = "returned" /\ ret.value = <<>>

\* a search with a non-empty query on records that are loaded and not processed
C4_Witness ==
    /\ IsSearch /\ ~BlankQuery /\ ~processed_ok
    /\ Len(Rows(df)) > 0
    /\ ret.status = "returned"

(* C5: find_lost_customers, while process_data has never succeeded, fails
   with an error and returns no candidates, whatever its arguments. *)
C5_LostBeforeProcessingRaises ==
    (IsLost /\ ~processed_ok) => ret.status = "raised" /\ ret.value = <<>>

\* the call on records that are loaded and not processed
C5_Witness ==
    /\ IsLost /\ ~processed_ok
    /\ Len(Rows(df)) > 0
    /\ ret.status = "raised"

(* C6: search_customer with a query that is empty after trimming returns an
   empty sequence and raises no error, in every mode, for every min_score and
   every index. *)
C6_BlankQueryGivesNothing ==
    (IsSearch /\ BlankQuery) => ret.status = "returned" /\ ret.value = <<>>

\* a blank query that is not the empty text, against an index of two customers,
\* in AUTO mode with min_score 0
C6_Witness ==
    /\ IsSearch /\ BlankQuery /\ ret.query # <<>>
    /\ ret.mode = "AUTO" /\ ret.min_score = 0
    /\ Len(customer_index) >= 2
    /\ ret.value = <<>>

\* the customers of the index whose normalized name is the normalized query
SameNormalizedName ==
    {customer_index[k].customer_name : k \in
        {j \in 1..Len(customer_index) :
            _normalize_text(customer_index[j].customer_name) = _normalize_text(ret.query)}}

SearchNamesReturned == {ret.value[i].customer_name : i \in 1..Len(ret.value)}

(* C7: in EXACT mode (query not blank) a customer scores 100 if and only if
   the normalized query equals its normalized name, and 0 otherwise; with
   min_score > 0 the result holds exactly the customers of equal normalized
   name, each with match_score 100. *)
C7_ExactMode ==
    (IsSearch /\ ret.mode = "EXACT" /\ ~BlankQuery)
        => /\ ret.status = "returned"
           /\ \A i \in 1..Len(ret.value) :
                 ret.value[i].match_score =
                     IF ret.value[i].customer_name \in SameNormalizedName
                     THEN 10000 ELSE 0
           /\ SearchNamesReturned =
                 IF ret.min_score > 0 THEN SameNormalizedName
                 ELSE {customer_index[k].customer_name : k \in 1..Len(customer_index)}

\* an EXACT search with min_score 100 that returned a customer whose raw name is
\* not the query, and left another customer out
C7_Witness ==
    /\ IsSearch /\ ret.mode = "EXACT" /\ ~BlankQuery /\ ret.min_score = 100
    /\ Len(ret.value) >= 1
    /\ Len(ret.value) < Len(customer_index)
    /\ ret.value[1].customer_name # ret.query

(* C8: in AUTO mode, for a query that is not blank and whose normalized form
   is a substring of a customer's normalized name, the customer scores 100
   when the two are equal and 95 otherwise, and is returned whenever
   min_score <= 95. *)
C8_AutoSubstring ==
    (IsSearch /\ ret.mode = "AUTO" /\ ~BlankQuery /\ ret.min_score <= 95)
        => \A k \in 1..Len(customer_index) :
              LET name == _normalize_text(customer_index[k].customer_name)
                  query == _normalize_text(ret.query)
              IN  Contains(name, query)
                  => \E i \in 1..Len(ret.value) :
                        /\ ret.value[i].customer_name = customer_index[k].customer_name
                        /\ ret.value[i].match_score =
                               IF name = query THEN 10000 ELSE 9500

\* an AUTO search with min_score 95 that returned a customer whose normalized
\* name contains the normalized query and is longer
C8_Witness ==
    /\ IsSearch /\ ret.mode = "AUTO" /\ ~BlankQuery /\ ret.min_score = 95
    /\ \E i \in 1..Len(ret.value) :
          /\ ret.value[i].match_score = 9500
          /\ Contains(_normalize_text(ret.value[i].customer_name),
                      _normalize_text(ret.query))
          /\ _normalize_text(ret.query) # <<>>

(* C9: the sequence search_customer returns is ordered by match_score,
   non-increasing, in every mode. *)
C9_SortedByScore ==
    (IsSearch /\ ret.status = "returned")
        => \A i \in 1..Len(ret.value) : \A j \in i..Len(ret.value) :
              ret.value[i].match_score >= ret.value[j].match_score

\* a search that returned every customer, two of them with different scores, the
\* best of them not the first of the index
C9_Witness ==
    /\ IsSearch
    /\ Len(ret.value) >= 2
    /\ Len(ret.value) = Len(customer_index)
    /\ ret.value[1].match_score > ret.value[2].match_score
    /\ ret.value[1].customer_name # customer_index[1].customer_name

(* C10: search_customer (query not blank) returns a result for a customer if
   and only if the customer's score in the chosen mode is >= min_score; no
   returned match_score is below min_score, and no customer has two
   results. *)
C10_ReturnedIffScoreReachesMin ==
    (IsSearch /\ ~BlankQuery)
        => /\ SearchNamesReturned =
                 {customer_index[k].customer_name : k \in
                     {j \in 1..Len(customer_index) :
                         RatGe(Score(customer_index[j], ret.query, ret.mode),
                               Rat(ret.min_score, 1))}}
           /\ \A i \in 1..Len(ret.value) : ret.value[i].match_score >= 100 * ret.min_score
           /\ Cardinality(SearchNamesReturned) = Len(ret.value)

\* a search with min_score > 0 that returned a customer whose score is exactly
\* min_score and left another customer out
C10_Witness ==
    /\ IsSearch /\ ~BlankQuery /\ ret.min_score > 0
    /\ Len(ret.value) >= 1
    /\ Len(ret.value) < Len(customer_index)
    /\ ret.value[Len(ret.value)].match_score = 100 * ret.min_score

\* a text has the same word twice
HasRepeatedWord(text) ==
    LET words == Split(_normalize_text(text))
    IN  \E i \in 1..Len(words) : \E j \in 1..Len(words) : i # j /\ words[i] = words[j]

(* C11: every match_score that search_customer produces lies in [0, 100]
   (0..10000 hundredths), and so does the score of every customer of the
   index before rounding, in all four modes, also when the query or the
   customer's name repeats a keyword. *)
C11_ScoreInRange ==
    (IsSearch /\ ~BlankQuery)
        => /\ \A i \in 1..Len(ret.value) :
                 ret.value[i].match_score >= 0 /\ ret.value[i].match_score <= 10000
           /\ \A k \in 1..Len(customer_index) :
                 LET score == Score(customer_index[k], ret.query, ret.mode)
                 IN  RatGe(score, Rat(0, 1)) /\ RatGe(Rat(100, 1), score)

\* a PARTIAL search that returned, with match_score 100, a customer whose name
\* repeats the keyword the query is made of
C11_Witness ==
    /\ IsSearch /\ ret.mode = "PARTIAL" /\ ~BlankQuery
    /\ ~HasRepeatedWord(ret.query)
    /\ \E i \in 1..Len(ret.value) :
          /\ HasRepeatedWord(ret.value[i].customer_name)
          /\ ret.value[i].match_score = 10000

IsNormalizeState == ret.op = "_normalize_state"

\* the text of a state with the Arabic yeh and kaf replaced, in lower case,
\* nothing removed
StateRead(state) ==
    Lower(ReplaceChar(ReplaceChar(state, "yeh_ar", "yeh"), "kaf_ar", "kaf"))

\* a keyword of the list is in the state as it is written
KeywordWritten(keywords, state) ==
    \E i \in 1..Len(keywords) : Contains(StateRead(state), StateRead(keywords[i]))

\* 'غیر' is in the state and, somewhere after it, 'رسمی'
NegationThenFormal(state) ==
    LET t == StateRead(state)
    IN  \E i \in 1..Len(t) : \E j \in 1..Len(t) :
           /\ i + 2 < j
           /\ j + 3 <= Len(t)
           /\ SubSeq(t, i, i + 2) = <<"ghain", "yeh", "reh">>
           /\ SubSeq(t, j, j + 3) = FormalLabel

(* C12: _normalize_state returns one of exactly three values, 'رسمی'
   (formal), 'غیررسمی' (informal) or 'نامشخص' (unknown), for every input, and
   'نامشخص' for an input that holds neither a formal nor an informal keyword.
   The code returns the trimmed input itself when it holds no keyword. *)
C12_ThreeLabelsOnly ==
    IsNormalizeState
        => /\ ret.value \in {FormalLabel, InformalLabel, UnknownLabel}
           /\ ( /\ ~AnyKeywordIn(informal_keywords, StateLower(ret.state))
                /\ ~AnyKeywordIn(formal_keywords, StateLower(ret.state)) )
              => ret.value = UnknownLabel

(* C13: _normalize_state applied to each of the labels 'رسمی', 'غیررسمی' and
   'نامشخص' returns that same label. *)
C13_LabelsAreFixed ==
    (IsNormalizeState /\ ret.state \in {FormalLabel, InformalLabel, UnknownLabel})
        => ret.value = ret.state

\* the call on 'غیررسمی', which holds the formal keyword 'رسمی' too
C13_Witness ==
    /\ IsNormalizeState
    /\ ret.state = InformalLabel
    /\ ret.value = InformalLabel

(* C14: _normalize_state returns 'غیررسمی' (informal) for every text in which
   'غیر' is followed by 'رسمی', be they adjacent or separated by whitespace,
   punctuation or other characters, and for every text in which an informal
   and a formal keyword are both written.  The code removes only spaces,
   half-spaces, tabs and line ends before it looks for its keywords. *)
C14_NegatedFormalIsInformal ==
    ( /\ IsNormalizeState
      /\ ret.state # NaNCell
      /\ \/ NegationThenFormal(ret.state)
         \/ /\ KeywordWritten(informal_keywords, ret.state)
            /\ KeywordWritten(formal_keywords, ret.state) )
        => ret.value = InformalLabel

IsPriority == ret.op = "_calculate_priority"

(* C15: a candidate's priority is high iff its purchase count >= 10 and its
   last active year >= 1402; medium iff it is not high and its purchase count
   >= 5 and its last active year >= 1401; low otherwise.  (12, 1402) is high,
   (6, 1401) is medium, (2, 1395) is low. *)
C15_PriorityTiers ==
    IsPriority
        => LET high == ret.purchases >= 10 /\ ret.last_year >= 1402
               medium == ~high /\ ret.purchases >= 5 /\ ret.last_year >= 1401
           IN  /\ ret.value \in {"high", "medium", "low"}
               /\ (ret.value = "high") <=> high
               /\ (ret.value = "medium") <=> medium
               /\ (ret.value = "low") <=> (~high /\ ~medium)
               /\ (ret.purchases = 12 /\ ret.last_year = 1402) => ret.value = "high"
               /\ (ret.purchases = 6 /\ ret.last_year = 1401) => ret.value = "medium"
               /\ (ret.purchases = 2 /\ ret.last_year = 1395) => ret.value = "low"

\* the candidate of exactly 10 purchases, last active in 1402, is high
C15_Witness ==
    /\ IsPriority
    /\ ret.purchases = 10 /\ ret.last_year = 1402
    /\ ret.value = "high"

(* C16: search_customer is read-only: the raw records, the processed records
   and the customer index are the same after the call as before it, for
   every query, mode and min_score. *)
C16_SearchIsReadOnly ==
    [][ (ret = NoCall /\ ret'.op = "search_customer")
            => /\ df' = df
               /\ processed_data' = processed_data
               /\ customer_index' = customer_index ]_vars

\* a search of an index of three customers that returned one of them
C16_Witness ==
    /\ IsSearch /\ ~BlankQuery
    /\ Len(customer_index) = 3
    /\ Len(ret.value) = 1

(* C17: the lists of a SearchResult are copies, not references into the
   customer index: when the caller modifies a list of a result it holds, the
   index stays as it was.  The code hands over the lists of the index
   themselves, so the index changes with them. *)
C17_ResultListsAreCopies ==
    [][ (ret.op = "search_customer" /\ ret'.op = "search_customer"
            /\ ret'.value # ret.value)
            => customer_index' = customer_index ]_vars

\* process_data has just run on the rows of df
JustProcessed ==
    \/ ret.op = "process_data" /\ ret.status = "returned"
    \/ ret.op \in {"add_customer", "update_customer", "delete_customer"} /\ ret.value

\* the raw rows whose cleaned name is neither empty nor 'nan'
NamedRows(rows) == SelectSeq(rows, LAMBDA r : CleanName(r) \notin {<<>>, NanText})

(* C18: after every successful process_data, every processed record has a
   cleaned customer name that is neither empty nor 'nan'; the raw rows whose
   cleaned name is empty or 'nan' are in neither the processed records nor
   the index, and every other raw row is a processed record, in order. *)
C18_OnlyNamelessRowsDropped ==
    JustProcessed
        => LET processed == Get(processed_data)
               named == NamedRows(Rows(df))
           IN  /\ \A i \in 1..Len(processed) :
                     processed[i].customer_name \notin {<<>>, NanText}
               /\ Len(processed) = Len(named)
               /\ \A i \in 1..Len(processed) :
                     /\ processed[i].label = named[i].label
                     /\ processed[i].customer_name = CleanName(named[i])
               /\ \A k \in 1..Len(customer_index) :
                     customer_index[k].customer_name \notin {<<>>, NanText}

\* two raw rows, one of them without a name, and one processed record
C18_Witness ==
    /\ JustProcessed
    /\ Len(Rows(df)) = 2
    /\ Len(Get(processed_data)) = 1
    /\ Len(customer_index) = 1

(* C19: the candidates that find_lost_customers returns are ordered by
   purchase count, non-increasing. *)
C19_SortedByCount ==
    (IsLost /\ ret.status = "returned")
        => \A i \in 1..Len(ret.value) : \A j \in i..Len(ret.value) :
              ret.value[i].total_purchases >= ret.value[j].total_purchases

\* two candidates, the one of more purchases first although its name sorts last
C19_Witness ==
    /\ IsLost /\ Len(ret.value) = 2
    /\ ret.value[1].total_purchases > ret.value[2].total_purchases
    /\ TextLess(ret.value[2].customer_name, ret.value[1].customer_name)

\* the processed records of a customer name whose year is known and lies in
\* start..end
KnownYearRows(name, start, end) ==
    {i \in 1..Len(Rows(processed_data)) :
        /\ Get(processed_data)[i].customer_name = name
        /\ Get(processed_data)[i].year \in start..end}

(* C20: every candidate that find_lost_customers returns has at least one
   record whose year lies in [active_period_start, active_period_end]; its
   purchase count is the number of its records in that window and is
   >= min_purchase_count; a record of unknown year is counted in no window. *)
C20_CandidatesCountActiveRecords ==
    (IsLost /\ ret.status = "returned")
        => \A i \in 1..Len(ret.value) :
              LET active == KnownYearRows(ret.value[i].customer_name,
                                          ret.args.window[1], ret.args.window[2])
              IN  /\ active # {}
                  /\ ret.value[i].total_purchases = Cardinality(active)
                  /\ ret.value[i].total_purchases >= ret.args.min_purchase_count
                  /\ ret.value[i].last_year \in ret.args.window[1]..ret.args.window[2]

\* a candidate with a record of unknown year beside its record of the active
\* window, returned with a purchase count of 1
C20_Witness ==
    /\ IsLost /\ Len(ret.value) >= 1
    /\ ret.value[1].total_purchases = 1
    /\ \E i \in 1..Len(Get(processed_data)) :
          /\ Get(processed_data)[i].customer_name = ret.value[1].customer_name
          /\ Get(processed_data)[i].year = NaN

IsCleanPhone == ret.op = "_clean_phone"

(* C21: _clean_phone removes every character that is no digit and, when the
   digits that remain start with 98 and are at least 10, puts a single 0 in
   the place of that 98; otherwise it returns the digits as they are; 'nan'
   and an input that is no string give the empty string.  "+989123456789"
   gives "09123456789". *)
C21_CleanPhone ==
    IsCleanPhone
        => LET digits == IF ret.phone \in {NaNCell, NanText} THEN <<>>
                         ELSE SelectSeq(ret.phone, LAMBDA c : c \in Digits)
               national == Len(digits) >= 10 /\ digits[1] = "9" /\ digits[2] = "8"
           IN  /\ national => ret.value = <<"0">> \o SubSeq(digits, 3, Len(digits))
               /\ ~national => ret.value = digits
               /\ ret.phone = <<"+", "9", "8", "9", "1", "2", "3", "4", "5", "6", "7", "8", "9">>
                     => ret.value = <<"0", "9", "1", "2", "3", "4", "5", "6", "7", "8", "9">>

\* the call on "+989123456789", which returned "09123456789"
C21_Witness ==
    /\ IsCleanPhone
    /\ ret.phone = <<"+", "9", "8", "9", "1", "2", "3", "4", "5", "6", "7", "8", "9">>
    /\ ret.value = <<"0", "9", "1", "2", "3", "4", "5", "6", "7", "8", "9">>

\* the raw rows of a cleaned customer name
RawRowsOf(name) == {i \in 1..Len(Rows(df)) : CleanName(Rows(df)[i]) = name}

(* C22: process_data does not fail because of a record whose year or month
   is no number: it returns, the record is a processed record with that
   field unknown (NaN), it is counted in the total_purchases of its customer
   in the index, and the year and month of every other record are the
   numbers of the raw row. *)
C22_UnparsableCellsAreUnknown ==
    (ret.op = "process_data" /\ ~IsNone(df))
        => /\ ret.status = "returned"
           /\ \A r \in {NamedRows(Rows(df))[i] : i \in 1..Len(NamedRows(Rows(df)))} :
                 /\ \E i \in 1..Len(Get(processed_data)) :
                       LET p == Get(processed_data)[i]
                       IN  /\ p.label = r.label
                           /\ p.year = IF r.year \in {Unparsable, NaN} THEN NaN ELSE r.year
                           /\ p.month = IF r.month \in {Unparsable, NaN} THEN NaN ELSE r.month
                 /\ \E k \in 1..Len(customer_index) :
                       /\ customer_index[k].customer_name = CleanName(r)
                       /\ customer_index[k].total_purchases =
                              Cardinality(RawRowsOf(CleanName(r)))
                       /\ \A j \in 1..Len(customer_index[k].years_active) :
                              customer_index[k].years_active[j] > 0

\* process_data returned on two records of one customer, the year and the month
\* of one of them no numbers, and the customer has two purchases and one year
C22_Witness ==
    /\ ret.op = "process_data" /\ ret.status = "returned"
    /\ Len(Rows(df)) = 2
    /\ \E i \in 1..2 : Rows(df)[i].year = Unparsable /\ Rows(df)[i].month = Unparsable
    /\ Len(customer_index) = 1
    /\ customer_index[1].total_purchases = 2
    /\ Len(customer_index[1].years_active) = 1

IsKeywordMatch == ret.op = "_calculate_keyword_match"

(* C23: the keyword-match score never counts a keyword of the second list
   twice: the score is at most the length of the shorter list, and when the
   second list has one keyword that two keywords of the first list are both
   similar to, only one of them contributes. *)
C23_NoDoubleCounting ==
    IsKeywordMatch
        => LET shorter == IF Len(ret.keywords1) <= Len(ret.keywords2)
                          THEN Len(ret.keywords1) ELSE Len(ret.keywords2)
           IN  RatGe(Rat(100 * shorter, 1), ret.value)

\* two keywords that are both 75 similar to the one keyword of the second list,
\* threshold 70: the score is 0.75
C23_Witness ==
    /\ IsKeywordMatch /\ ret.threshold = 70
    /\ ret.keywords1 = << <<"a", "b", "c", "d">>, <<"a", "b", "c", "e">> >>
    /\ ret.keywords2 = << <<"a", "b", "c", "f">> >>
    /\ RatGe(ret.value, Rat(75, 1)) /\ RatGe(Rat(75, 1), ret.value)

\* what the claim lets one query word add, in tenths: 1.0 when some keyword of
\* the customer contains it, 0.8 when none does and some keyword is more than 85
\* similar to it
ClaimedWordMatch(q_word, keywords) ==
    IF \E k \in 1..Len(keywords) : Contains(keywords[k], q_word) THEN 10
    ELSE IF \E k \in 1..Len(keywords) : RatGt(fuzz_ratio(q_word, keywords[k]), Rat(85, 1))
    THEN 8
    ELSE 0

(* C24: in the keyword tier of AUTO (the normalized query is not in the
   normalized name), each query keyword adds 1.0 when some keyword of the
   customer contains it, whatever the order of the customer's keywords, and
   0.8 only when none contains it and some keyword is more than 85 similar;
   the score is (sum / number of query keywords) * 90.  The code stops at
   the first keyword of the customer that contains the word or is similar to
   it, so a similar keyword that comes first gives 0.8. *)
C24_AutoKeywordTier ==
    (IsSearch /\ ret.mode = "AUTO" /\ ~BlankQuery /\ ret.min_score = 0)
        => \A k \in 1..Len(customer_index) :
              LET info == customer_index[k]
                  query_normalized == _normalize_text(ret.query)
                  query_keywords == Split(query_normalized)
                  sum == SumSeq([i \in 1..Len(query_keywords) |->
                                    ClaimedWordMatch(query_keywords[i], info.keywords)])
              IN  (~Contains(info.normalized_name, query_normalized) /\ sum > 0)
                  => \E i \in 1..Len(ret.value) :
                        /\ ret.value[i].customer_name = info.customer_name
                        /\ ret.value[i].match_score =
                               Round2(Rat(sum * 9, Len(query_keywords)))

(* C25: for each candidate that find_lost_customers returns, last_year is the
   greatest year of its records in the active window, and last_month is the
   month of one of its records of that year, whatever the order of the rows
   (stated for the candidates all of whose records have a known month). *)
C25_LastSeenIsOfLastYear ==
    (IsLost /\ ret.status = "returned")
        => \A i \in 1..Len(ret.value) :
              LET active == KnownYearRows(ret.value[i].customer_name,
                                          ret.args.window[1], ret.args.window[2])
                  years == {Get(processed_data)[j].year : j \in active}
              IN  (\A j \in active : Get(processed_data)[j].month # NaN)
                  => /\ ret.value[i].last_year \in years
                     /\ \A y \in years : y <= ret.value[i].last_year
                     /\ \E j \in active :
                           /\ Get(processed_data)[j].year = ret.value[i].last_year
                           /\ Get(processed_data)[j].month = ret.value[i].last_month

\* the call that has just returned is one of the three that change records
IsMutation(call) == call.op \in {"add_customer", "update_customer", "delete_customer"}

(* C26: when add_customer, update_customer or delete_customer returns False,
   the raw records, the processed records and the customer index are exactly
   as they were before the call. *)
C26_FalseLeavesStateUnchanged ==
    [][(ret = NoCall /\ IsMutation(ret') /\ ret'.value = FALSE)
          => UNCHANGED <<df, processed_data, customer_index>>]_vars

\* the positions of the raw rows that carry a label
RawPositions(label) == {k \in 1..Len(Rows(df)) : Rows(df)[k].label = label}

\* the row index of every processed record is the label of exactly one raw
\* row, and the processed record is the cleaned form of that row
IdentifiesSameRecord ==
    \A i \in 1..Len(Rows(processed_data)) :
        LET p == Get(processed_data)[i]
        IN  /\ Cardinality(RawPositions(p.label)) = 1
            /\ \A k \in RawPositions(p.label) : CleanRow(Rows(df)[k]) = p

\* the cells of a raw row, without its label
Cells(r) == <<r.name, r.year, r.month>>

\* the rows, without the one at position k
WithoutPosition(rows, k) ==
    [j \in 1..(Len(rows) - 1) |-> IF j < k THEN Cells(rows[j]) ELSE Cells(rows[j + 1])]

(* C27, as claimed: after any sequence of load_data, process_data,
   add_customer, update_customer and delete_customer, the row index of a
   processed record identifies the same record in the raw record set. *)
C27_ProcessedIndexIdentifiesRawRecord == IdentifiesSameRecord

(* C27, amended: once process_data has returned, or add_customer,
   update_customer or delete_customer has returned True, the row index of
   every processed record identifies the same record in the raw record set;
   and whenever it does, update_customer(i, ...) and delete_customer(i) with
   the index i of a processed record change, or remove, exactly the raw
   record of that index and no other.  load_data alone leaves the processed
   records of the previous record set. *)
C27_IndexOfProcessedViewAfterProcessing ==
    /\ [](JustProcessed => IdentifiesSameRecord)
    /\ [][ ( /\ ret = NoCall
             /\ IdentifiesSameRecord
             /\ ret'.op \in {"update_customer", "delete_customer"}
             /\ \E i \in 1..Len(Rows(processed_data)) :
                   Get(processed_data)[i].label = ret'.args.index )
           => \E k \in RawPositions(ret'.args.index) :
                 IF ret'.op = "delete_customer"
                 THEN /\ Len(Rows(df')) = Len(Rows(df)) - 1
                      /\ [j \in 1..Len(Rows(df')) |-> Cells(Rows(df')[j])]
                             = WithoutPosition(Rows(df), k)
                 ELSE /\ Len(Rows(df')) = Len(Rows(df))
                      /\ \A j \in 1..Len(Rows(df)) :
                            j # k => Rows(df')[j] = Rows(df)[j]
                      /\ Rows(df')[k].label = ret'.args.index ]_vars

\* update_customer with the index 1 of the only processed record, whose raw
\* row is the second one, has changed the name of that row
C27_Witness ==
    /\ ret.op = "update_customer" /\ ret.value /\ ret.args.index = 1
    /\ Len(Rows(df)) = 2
    /\ CleanName(Rows(df)[1]) = NanText
    /\ Rows(df)[2].name = <<"c">>
    /\ Len(Rows(processed_data)) = 1
    /\ Get(processed_data)[1].label = 1

\* the cell after an update: the value passed, or the cell as it was for None
CellAfter(arg, cell) == IF IsNone(arg) THEN cell ELSE Get(arg)

\* the same for a text, an empty text being read as no value passed
TextCellAfter(arg, cell) == IF IsNone(arg) \/ arg = Some(<<>>) THEN cell ELSE Get(arg)

(* C28: a successful update_customer(index, ...) sets each field passed with
   a value to that value and leaves unchanged every field of the record that
   was not passed (None), every other record, and the number and order of the
   records (an empty text is read here as no value passed). *)
C28_UpdateSetsPassedFieldsOnly ==
    [][ (ret = NoCall /\ ret'.op = "update_customer" /\ ret'.value)
          => /\ Len(Rows(df')) = Len(Rows(df))
             /\ \A k \in 1..Len(Rows(df)) :
                   LET old == Rows(df)[k]
                       new == Rows(df')[k]
                   IN  IF old.label # ret'.args.index
                       THEN new = old
                       ELSE /\ new.label = old.label
                            /\ new.name = TextCellAfter(ret'.args.customer_name, old.name)
                            /\ new.year = CellAfter(ret'.args.year, old.year)
                            /\ new.month = CellAfter(ret'.args.month, old.month) ]_vars

(* C29: for a query whose normalized form is empty or has no keywords (a
   query made only of zero-width non-joiners, say), search_customer returns
   an empty sequence in every mode and raises no error; in particular it
   never returns every customer of the index (stated for min_score > 0:
   with min_score 0 a score of 0 is enough to be returned). *)
C29_EmptyNormalizedQueryFindsNothing ==
    (IsSearch /\ Split(_normalize_text(ret.query)) = <<>> /\ ret.min_score > 0)
        => /\ ret.status = "returned"
           /\ ret.value = <<>>

IsNormalizeText == ret.op = "_normalize_text"

(* C30: _normalize_text is idempotent: for every text s, also one that differs
   from 'nan' only by case or by the whitespace around it,
   _normalize_text(_normalize_text(s)) = _normalize_text(s). *)
C30_NormalizeTextIdempotent ==
    IsNormalizeText => _normalize_text(ret.value) = ret.value

=============================================================================
